---- MODULE Spec2Model ----
(***************************************************************************)
(* Model of DouyuMonitor (main.py): the room-info resolution chain, the    *)
(* name cache, the status diff, the notification dispatch, the poll loop   *)
(* and the selection-handler threads it starts.                            *)
(*                                                                         *)
(* Strings of the program are written in ASCII:                            *)
(*   "unknown_room"     for the literal '未知房间'                          *)
(*   "unknown_owner"    for the literal '未知主播'                          *)
(*   "unknown_room_"+id for f'未知房间_{room_id}'                           *)
(*   "unknown_owner_"+id for f'未知主播_{room_id}'                          *)
(*   the token "DOUYU"  for the substring '斗鱼' of a page title            *)
(* A dictionary key that is missing is the value Absent; a key that is     *)
(* present with a falsy value is the empty string.                         *)
(*                                                                         *)
(* Specifications:                                                         *)
(*   SpecResolve  one call of get_room_info over every upstream outcome    *)
(*   SpecCache    save_room_names and load_room_names on the cache file    *)
(*   Spec         the poll loop and its handler threads                    *)
(*   SpecRun      the same, with the ways run returns                      *)
(*   SpecNotify   the same as Spec, recording the calls of notify          *)
(*   SpecSelect   the same as Spec, recording how handler threads end      *)
(***************************************************************************)
EXTENDS Naturals, Sequences, FiniteSets, TLC

\* ------------------------------------------------------------------ bounds
\* Poll cycles the model runs before the loop is cut off.
MaxCycles == 2

\* ------------------------------------------------------- values and helpers
\* self.room_ids: the configured rooms, fixed for the run (two by default).
room_ids == <<"A", "B">>
Rooms == {room_ids[i] : i \in 1..Len(room_ids)}

Absent == "<absent>"
\* Python truthiness of a str-or-None value.
Truthy(v) == v # Absent /\ v # ""
\* dict.get(key, default): the default only when the key is missing.
Get(v, default) == IF v = Absent THEN default ELSE v

UnknownRoom == "unknown_room"
UnknownOwner == "unknown_owner"
UnknownRoomOf(room_id) == "unknown_room_" \o room_id
UnknownOwnerOf(room_id) == "unknown_owner_" \o room_id

\* A returned dictionary; mapping = FALSE is a returned value that is no dict.
RoomDict(id, name, status, owner) ==
  [mapping |-> TRUE, room_id |-> id, room_name |-> name,
   room_status |-> status, owner_name |-> owner]
EmptyDict == RoomDict(Absent, Absent, Absent, Absent)
NotADict == [mapping |-> FALSE, room_id |-> Absent, room_name |-> Absent,
             room_status |-> Absent, owner_name |-> Absent]

\* --------------------------------------------------------- upstream outcomes
\* What the primary API (open.douyu.com) can answer for a room.  kind is
\* "exception" when requests.get or response.json() raises or the body is JSON
\* but no object; otherwise the body is an object with an error field and the
\* value data.get('data', {}) would return.
PrimaryData(room_id) ==
  { RoomDict(room_id, "Y", "1", "X"),
    RoomDict(room_id, "Y", "2", "X"),
    EmptyDict,
    NotADict }
PrimaryOutcomes(room_id) ==
  { [kind |-> "exception", error |-> 1, data |-> EmptyDict] }
  \cup { [kind |-> "json", error |-> 1, data |-> EmptyDict] }
  \cup { [kind |-> "json", error |-> 0, data |-> d] : d \in PrimaryData(room_id) }

\* A page title, already split on '-': a sequence of parts, each a sequence
\* of tokens; "sp" is white space.  <<>> is a page without a <title>.
Titles ==
  { <<>>,
    << <<"Y">> >>,
    << <<"Y", "sp">>, <<"sp", "X", "DOUYU">> >>,
    << <<"sp">>, <<"sp", "DOUYU">> >> }
\* A mobile page body, by what the regular expressions find in it.
Bodies ==
  [ isLive : BOOLEAN,          \* one of is_live_patterns matches
    notFound : BOOLEAN,        \* a room-not-found marker is in the page
    nickname : {Absent, "X"},  \* "nickname": "..."
    roomName : {Absent, "Y"},  \* "roomName": "..."
    room_name : {Absent, "Y"}, \* "room_name": "..."
    title : Titles ]
NoBody ==
  [isLive |-> FALSE, notFound |-> FALSE, nickname |-> Absent,
   roomName |-> Absent, room_name |-> Absent, title |-> <<>>]
\* response.url against the requested url.
FinalUrls == {"same", "other", "topic"}
Differs(final_url) == final_url # "same"
ContainsTopic(final_url) == final_url = "topic"
MobileNotCalled ==
  [kind |-> "notcalled", final_url |-> "same", status_code |-> 0, body |-> NoBody]
MobileOutcomes ==
  { [kind |-> "exception", final_url |-> "same", status_code |-> 0, body |-> NoBody] }
  \cup { [kind |-> "response", final_url |-> u, status_code |-> 404, body |-> NoBody]
         : u \in FinalUrls }
  \cup { [kind |-> "response", final_url |-> u, status_code |-> 200, body |-> b]
         : u \in FinalUrls, b \in Bodies }

\* What the secondary API (www.douyu.com/betard) can answer: json = FALSE is
\* a body response.json() rejects; room is data.get('room') (hasRoom = FALSE
\* when it is missing or falsy).
PcRooms(room_id) ==
  { [hasRoom |-> FALSE, room_id |-> Absent, room_name |-> Absent,
     show_status |-> 0, owner_name |-> Absent],
    [hasRoom |-> TRUE, room_id |-> Absent, room_name |-> "Y",
     show_status |-> 1, owner_name |-> "X"] }
  \cup { [hasRoom |-> TRUE, room_id |-> room_id, room_name |-> n,
          show_status |-> s, owner_name |-> o]
         : n \in {"Y", Absent, ""}, s \in {0, 1}, o \in {"X", Absent} }
PcNoRoom ==
  [hasRoom |-> FALSE, room_id |-> Absent, room_name |-> Absent,
   show_status |-> 0, owner_name |-> Absent]
PcNotCalled == [kind |-> "notcalled", status_code |-> 0, json |-> FALSE, room |-> PcNoRoom]
PcOutcomes(room_id) ==
  { [kind |-> "exception", status_code |-> 0, json |-> FALSE, room |-> PcNoRoom],
    [kind |-> "response", status_code |-> 500, json |-> FALSE, room |-> PcNoRoom],
    [kind |-> "response", status_code |-> 200, json |-> FALSE, room |-> PcNoRoom] }
  \cup { [kind |-> "response", status_code |-> 200, json |-> TRUE, room |-> rm]
         : rm \in PcRooms(room_id) }
\* ------------------------------------------------------------ the resolver
RECURSIVE StripLeft(_), StripRight(_), Text(_)
StripLeft(t) == IF t # <<>> /\ Head(t) = "sp" THEN StripLeft(Tail(t)) ELSE t
StripRight(t) ==
  IF t # <<>> /\ t[Len(t)] = "sp" THEN StripRight(SubSeq(t, 1, Len(t) - 1)) ELSE t
\* str.strip() of a title part.
Strip(t) == StripRight(StripLeft(t))
\* str.replace(token, "") of a title part.
Remove(t, token) == SelectSeq(t, LAMBDA x : x # token)
\* The string a sequence of tokens spells.
Text(t) ==
  IF t = <<>> THEN ""
  ELSE (IF Head(t) = "sp" THEN " " ELSE Head(t)) \o Text(Tail(t))

\* The dictionary the scrape of a 200 mobile page returns.
ParseMobilePage(room_id, body) ==
  LET owner1 == IF body.nickname # Absent THEN body.nickname ELSE UnknownOwner
      room1 == IF body.roomName # Absent THEN body.roomName
               ELSE IF body.room_name # Absent THEN body.room_name
               ELSE UnknownRoom
      useTitle == /\ (owner1 = UnknownOwner \/ room1 = UnknownRoom)
                  /\ Len(body.title) >= 2
      room2 == IF useTitle /\ room1 = UnknownRoom
               THEN Text(Strip(body.title[1])) ELSE room1
      owner2 == IF useTitle /\ owner1 = UnknownOwner
                THEN Text(Strip(Remove(Strip(body.title[2]), "DOUYU"))) ELSE owner1
      is_live == body.isLive /\ ~body.notFound
  IN RoomDict(room_id, room2, IF is_live THEN "1" ELSE "2", owner2)

\* The secondary API answered with a payload the code accepts.
PcAccepts(s) ==
  /\ s.kind = "response"
  /\ s.status_code = 200
  /\ s.json
  /\ s.room.hasRoom
  /\ Truthy(s.room.room_id)

\* _try_pc_api: the secondary API, then the dictionary built from the cache.
\* names is self.room_names; consulted lists the sources used, in order.
_try_pc_api(room_id, names, s) ==
  IF PcAccepts(s)
  THEN [info |-> RoomDict(room_id,
                          Get(s.room.room_name, UnknownRoomOf(room_id)),
                          IF s.room.show_status = 1 THEN "1" ELSE "2",
                          Get(s.room.owner_name, UnknownOwner)),
        consulted |-> <<"pc">>]
  ELSE LET cached_name == names[room_id]
       IN [info |-> RoomDict(room_id,
                             IF Truthy(cached_name) THEN cached_name
                             ELSE UnknownRoomOf(room_id),
                             "2",
                             IF Truthy(cached_name) THEN cached_name
                             ELSE UnknownOwnerOf(room_id)),
           consulted |-> <<"pc", "cache">>]

\* The mobile page was redirected to a campaign page.
RedirectedToTopic(m) ==
  m.kind = "response" /\ Differs(m.final_url) /\ ContainsTopic(m.final_url)
\* The mobile page request returns a result itself (no secondary API call).
MobileAnswers(m) ==
  RedirectedToTopic(m) \/ (m.kind = "response" /\ m.status_code = 200)

\* get_room_info_backup that asks the secondary API before the mobile page.
get_room_info_backup_pc_first(room_id, names, m, s) ==
  IF PcAccepts(s)
  THEN [info |-> _try_pc_api(room_id, names, s).info, consulted |-> <<"pc">>]
  ELSE IF RedirectedToTopic(m)
  THEN [info |-> RoomDict(room_id,
                          Get(names[room_id], UnknownRoomOf(room_id)),
                          "2",
                          Get(names[room_id], UnknownOwnerOf(room_id))),
        consulted |-> <<"pc", "mobile", "cache">>]
  ELSE IF m.kind = "response" /\ m.status_code = 200
  THEN [info |-> ParseMobilePage(room_id, m.body),
        consulted |-> <<"pc", "mobile">>]
  ELSE [info |-> _try_pc_api(room_id, names, s).info,
        consulted |-> <<"pc", "mobile", "cache">>]

\* get_room_info_backup with the status test made before the redirect test.
get_room_info_backup_status_first(room_id, names, m, s) ==
  IF m.kind = "response" /\ m.status_code = 200
  THEN [info |-> ParseMobilePage(room_id, m.body), consulted |-> <<"mobile">>]
  ELSE IF RedirectedToTopic(m)
  THEN [info |-> RoomDict(room_id,
                          Get(names[room_id], UnknownRoomOf(room_id)),
                          "2",
                          Get(names[room_id], UnknownOwnerOf(room_id))),
        consulted |-> <<"mobile", "cache">>]
  ELSE LET r == _try_pc_api(room_id, names, s)
       IN [info |-> r.info, consulted |-> <<"mobile">> \o r.consulted]

\* get_room_info_backup: the mobile page, else _try_pc_api.
get_room_info_backup(room_id, names, m, s) ==
  IF RedirectedToTopic(m)
  THEN [info |-> RoomDict(room_id,
                          Get(names[room_id], UnknownRoomOf(room_id)),
                          "2",
                          Get(names[room_id], UnknownOwnerOf(room_id))),
        consulted |-> <<"mobile", "cache">>]
  ELSE IF m.kind = "response" /\ m.status_code = 200
  THEN [info |-> ParseMobilePage(room_id, m.body), consulted |-> <<"mobile">>]
  ELSE LET r == _try_pc_api(room_id, names, s)
       IN [info |-> r.info, consulted |-> <<"mobile">> \o r.consulted]

\* The primary API answered with the explicit success marker.
PrimarySucceeds(p) == p.kind = "json" /\ p.error = 0

\* get_room_info that accepts a primary answer only when it carries a name.
get_room_info_needs_name(room_id, names, p, m, s) ==
  IF PrimarySucceeds(p) /\ p.data.mapping /\ Truthy(p.data.room_name)
  THEN [info |-> p.data, consulted |-> <<"primary">>]
  ELSE LET r == get_room_info_backup(room_id, names, m, s)
       IN [info |-> r.info, consulted |-> <<"primary">> \o r.consulted]

\* get_room_info: the primary API, else get_room_info_backup.
get_room_info(room_id, names, p, m, s) ==
  IF PrimarySucceeds(p)
  THEN [info |-> p.data, consulted |-> <<"primary">>]
  ELSE LET r == get_room_info_backup(room_id, names, m, s)
       IN [info |-> r.info, consulted |-> <<"primary">> \o r.consulted]

\* The outcomes of the requests one resolution makes: a source that is not
\* reached has no outcome (MobileNotCalled, PcNotCalled).
Upstreams(room_id, mobiles, pcs) ==
  LET fails == {p \in PrimaryOutcomes(room_id) : ~PrimarySucceeds(p)}
  IN { [primary |-> p, mobile |-> MobileNotCalled, pc |-> PcNotCalled]
       : p \in PrimaryOutcomes(room_id) \ fails }
     \cup { [primary |-> p, mobile |-> m, pc |-> PcNotCalled]
            : p \in fails, m \in {x \in mobiles : MobileAnswers(x)} }
     \cup { [primary |-> p, mobile |-> m, pc |-> s]
            : p \in fails, m \in {x \in mobiles : ~MobileAnswers(x)}, s \in pcs }

\* Names the name cache can hold when a resolution starts.
CachedNames(room_id) == {Absent, "Y", UnknownRoom, UnknownRoomOf(room_id)}
\* ------------------------------------------------------------------- state
VARIABLES
  room_status,      \* self.room_status: room id -> tracked live flag
  room_names,       \* self.room_names: the name cache, room id -> name or Absent
  new_live_rooms,   \* self.new_live_rooms: the pending selection list
  server_chan_key,  \* whether a push-relay key is configured
  phase,            \* where the poll thread is: "poll", "spawn", "sleep",
                    \* or "stopped" once run has returned
  idx,              \* index in room_ids of the room the for loop is at
  cycle,            \* number of the current poll cycle (bookkeeping)
  handlers,         \* handler threads by position in handle_new_live_rooms:
                    \* how many before the branch, and for each one in the
                    \* single-room branch or waiting in input() the entries
                    \* the list had when the thread looked at it
  last,             \* what the last room iteration of run did (bookkeeping)
  newly_live,       \* rooms classified newly live in this cycle (bookkeeping,
                    \* recorded with last)
  call,             \* one call of get_room_info and what it returned
  cycle_log,        \* how each iteration of this cycle's for loop ended
                    \* (bookkeeping), in room order: "raised", "notify_failed"
                    \* (notify caught an exception of its own) or "ok"
  stop_cause,       \* which except clause of run ended the loop (bookkeeping)
  cache_file,       \* config/room_names.json: whether it exists, and its text
  io_log,           \* the calls of save_room_names and load_room_names made
                    \* on their own, latest last (bookkeeping)
  auto_open,        \* self.auto_open
  hlast,            \* how the handler thread that ended last went (bookkeeping)
  tracked,          \* which of the bookkeeping variables last, cycle_log,
                    \* hlast and notified this run records (the others stay as
                    \* they start)
  notified          \* for each room, the kinds of the calls of notify run
                    \* made for it, in order, and whether one of them failed
                    \* to show its notification (bookkeeping)

vars == <<room_status, room_names, new_live_rooms, server_chan_key, phase, idx,
          cycle, handlers, last, newly_live, call, cycle_log, stop_cause,
          cache_file, io_log, auto_open, hlast, tracked, notified>>
loopVars == <<room_status, room_names, new_live_rooms, server_chan_key, phase,
              idx, cycle, handlers, last, newly_live, cycle_log, stop_cause,
              cache_file, io_log, auto_open, hlast, tracked, notified>>

NoResult == [info |-> EmptyDict, consulted |-> <<>>]
\* No call of get_room_info is being looked at.
NoCall == [done |-> TRUE]
NoLast == [room |-> "", consulted |-> <<>>, raised |-> FALSE, prior |-> FALSE,
           is_live |-> FALSE, kind |-> "none", local |-> "none", relay |-> FALSE]

NoHandlerEnd == [branch |-> "none", path |-> "none", room |-> ""]

\* The value a bookkeeping variable takes: the new one when the run records
\* that variable, else the one it started with.
Kept(name, value, start) == IF name \in tracked THEN value ELSE start

\* ------------------------------------------------------ the name cache file
\* json.dump of a dict of strings: the text as a sequence of tokens, one
\* "key": "value" member per key the dict has, in the order of room_ids.
RECURSIVE Members(_, _)
Members(names, i) ==
  IF i > Len(room_ids) THEN <<>>
  ELSE LET rest == Members(names, i + 1)
           key == room_ids[i]
       IN IF names[key] = Absent THEN rest
          ELSE IF rest = <<>> THEN <<key, ":", names[key]>>
          ELSE <<key, ":", names[key], ",">> \o rest

\* The dump that leaves out the members after the first.
JsonDump_first_member(names) ==
  LET members == Members(names, 1)
  IN <<"{">> \o (IF members = <<>> THEN <<>> ELSE SubSeq(members, 1, 3))
            \o <<"}">>

JsonDump(names) == <<"{">> \o Members(names, 1) \o <<"}">>

Punctuation == {"{", "}", ":", ","}
NoNames == [r \in Rooms |-> Absent]
ParseError == [ok |-> FALSE, value |-> NoNames]

\* json.load of the members of an object: key, colon, string value, then
\* either the end or a comma and further members.
RECURSIVE ParseMembers(_, _)
ParseMembers(tokens, acc) ==
  IF \/ Len(tokens) < 3
     \/ tokens[1] \notin Rooms
     \/ tokens[2] # ":"
     \/ tokens[3] \in Punctuation
  THEN ParseError
  ELSE LET acc2 == [acc EXCEPT ![tokens[1]] = tokens[3]]
       IN IF Len(tokens) = 3 THEN [ok |-> TRUE, value |-> acc2]
          ELSE IF tokens[4] # "," THEN ParseError
          ELSE ParseMembers(SubSeq(tokens, 5, Len(tokens)), acc2)

\* json.load of a text: an object of string members, or JSONDecodeError.
JsonLoad(text) ==
  IF Len(text) < 2 \/ text[1] # "{" \/ text[Len(text)] # "}"
  THEN ParseError
  ELSE IF Len(text) = 2 THEN [ok |-> TRUE, value |-> NoNames]
  ELSE ParseMembers(SubSeq(text, 2, Len(text) - 1), NoNames)

MissingFile == [exists |-> FALSE, text |-> <<>>]
File(text) == [exists |-> TRUE, text |-> text]

\* load_room_names: io is "raise" when open or read raises.  The result is the
\* value returned, whether the failure was logged, whether an exception left
\* the method.
load_room_names(file, io) ==
  IF ~file.exists
  THEN [value |-> NoNames, logged |-> FALSE, raised |-> FALSE]
  ELSE IF io = "raise" \/ ~JsonLoad(file.text).ok
  THEN [value |-> NoNames, logged |-> TRUE, raised |-> FALSE]
  ELSE [value |-> JsonLoad(file.text).value, logged |-> FALSE, raised |-> FALSE]

\* save_room_names: io.kind is "ok", "open_raises" (the file is left as it
\* was) or "write_raises" (the file is left with the first io.cut tokens).
save_room_names(names, file, io) ==
  IF io.kind = "ok"
  THEN [file |-> File(JsonDump(names)), logged |-> FALSE, raised |-> FALSE]
  ELSE IF io.kind = "open_raises"
  THEN [file |-> file, logged |-> TRUE, raised |-> FALSE]
  ELSE [file |-> File(SubSeq(JsonDump(names), 1, io.cut)), logged |-> TRUE,
        raised |-> FALSE]

\* The ways one save can go.
SaveOutcomes(names) ==
  { [kind |-> "ok", cut |-> 0], [kind |-> "open_raises", cut |-> 0] }
  \cup { [kind |-> "write_raises", cut |-> n]
         : n \in 0..(Len(JsonDump(names)) - 1) }

\* The name caches the file can hold at startup.
CacheFiles == {f \in [Rooms -> {Absent, "Y"}] : TRUE}
\* The cache files load_room_names can find at startup: none, or one written
\* by an earlier run.
StartFiles == {MissingFile} \cup {File(JsonDump(f)) : f \in CacheFiles}

\* DouyuMonitor.__init__, the name cache apart.
InitMonitor ==
  /\ room_status = [r \in Rooms |-> FALSE]
  /\ new_live_rooms = <<>>
  /\ server_chan_key \in BOOLEAN
  /\ phase = "poll"
  /\ idx = 1
  /\ cycle = 1
  /\ handlers = [start |-> 0, single |-> <<>>, input |-> <<>>]
  /\ auto_open \in BOOLEAN
  /\ hlast = NoHandlerEnd
  /\ last = NoLast
  /\ newly_live = {}
  /\ cycle_log = <<>>
  /\ stop_cause = "none"
  /\ io_log = <<>>
  /\ notified = [r \in Rooms |-> [kinds |-> <<>>, failed |-> FALSE]]

\* DouyuMonitor.__init__: the name cache is loaded from the file.
InitLoop ==
  /\ InitMonitor
  /\ cache_file \in StartFiles
  /\ room_names = load_room_names(cache_file, "ok").value

\* The monitor as main builds it when the user asks for pages to be opened;
\* the run records what each room iteration did.
Init ==
  /\ InitLoop
  /\ call = NoCall
  /\ auto_open
  /\ tracked = {"last"}

\* ------------------------------------------------------------ the poll loop
\* The outcomes the poll loop's model draws from: for each source, its ways of
\* failing and a few answers (a subset of MobileOutcomes and PcOutcomes).
PollBodies ==
  { b \in Bodies :
      /\ b.room_name = Absent
      /\ (b.nickname = Absent) = (b.roomName = Absent)
      /\ b.title \in {<<>>, << <<"sp">>, <<"sp", "DOUYU">> >>}
      /\ (b.nickname # Absent => b.title = <<>>)
      /\ (b.notFound => b.isLive /\ b.nickname # Absent)
      /\ (b.title # <<>> => b.isLive) }
PollMobiles ==
  { m \in MobileOutcomes :
      \/ m.kind = "exception"
      \/ m.status_code = 404 /\ m.final_url \in {"same", "topic"}
      \/ m.status_code = 200 /\ m.final_url = "same" /\ m.body \in PollBodies
      \/ m.status_code = 200 /\ m.final_url = "topic" /\ m.body = NoBody }
PollPcs(room_id) ==
  { s \in PcOutcomes(room_id) :
      \/ s.kind = "exception"
      \/ s.status_code = 200 /\ ~s.json
      \/ /\ s.json
         /\ s.room.room_id = room_id
         /\ \/ s.room.room_name = "Y" /\ s.room.owner_name = "X"
            \/ /\ s.room.room_name = Absent
               /\ s.room.owner_name = Absent
               /\ s.room.show_status = 0 }

\* The upstream outcomes one poll of each room can meet (a failing primary
\* API is the answer with an error marker: an exception takes the same path).
PollUpstreams ==
  [r \in Rooms |->
     {u \in Upstreams(r, PollMobiles, PollPcs(r)) : u.primary.kind = "json"}]

\* What get_room_info can return in one poll of room r with the cached name
\* n: get_room_info reads the cache at the room's own key only.
PollResolutions ==
  [r \in Rooms |->
     [n \in CachedNames(r) |->
        { get_room_info(r, [x \in Rooms |-> n], u.primary, u.mobile, u.pc)
          : u \in PollUpstreams[r] }]]

\* check_room_status, res being what its call of get_room_info returned:
\* derive is_live, update the name cache.  raised is the AttributeError of
\* room_info.get on a value that is no dict.
check_room_status(room_id, names, res) ==
  IF ~res.info.mapping
  THEN [raised |-> TRUE, is_live |-> FALSE, room_info |-> res.info,
        room_names |-> names, saves |-> FALSE, consulted |-> res.consulted]
  ELSE [raised |-> FALSE,
        is_live |-> res.info.room_status = "1",
        room_info |-> res.info,
        room_names |-> IF Truthy(res.info.room_name)
                       THEN [names EXCEPT ![room_id] = res.info.room_name]
                       ELSE names,
        saves |-> Truthy(res.info.room_name),
        consulted |-> res.consulted]

\* notify: local is what notification.notify does ("ok" or "raise"); relay is
\* whether send_server_chan is called.
notify(key, local) == [local |-> local, relay |-> key /\ local = "ok"]

\* The comparison with the stored state left out for a live result.
TransitionKind_live_unconditional(stored, is_live) ==
  IF is_live THEN "NewlyLive"
  ELSE IF stored THEN "NewlyOffline"
  ELSE "Unchanged"

\* The comparison of run: how one poll result is classified.
TransitionKind(stored, is_live) ==
  IF is_live # stored
  THEN (IF is_live THEN "NewlyLive" ELSE "NewlyOffline")
  ELSE "Unchanged"

\* An entry of new_live_rooms: the tuple (room_id, room_info); cycle is the
\* poll cycle that appended it (bookkeeping).
Entry(room_id, room_info) ==
  [room_id |-> room_id, room_info |-> room_info, cycle |-> cycle]

\* The assignment to self.room_status made in the offline branch only.
Stored_offline_only(kind, room_id, is_live) ==
  IF kind = "NewlyOffline"
  THEN [room_status EXCEPT ![room_id] = is_live]
  ELSE room_status

\* self.room_status after the comparison of run.
Stored(kind, room_id, is_live) ==
  IF kind \in {"NewlyLive", "NewlyOffline"}
  THEN [room_status EXCEPT ![room_id] = is_live]
  ELSE room_status

\* The notification run sends for a poll result: both branches of a change
\* call notify once, no change calls nothing (local "none").
Dispatch(kind, local) ==
  IF kind \in {"NewlyLive", "NewlyOffline"}
  THEN notify(server_chan_key, local)
  ELSE [local |-> "none", relay |-> FALSE]

\* The append moved out of the is_live branch: made on every change.
Pending_on_every_change(kind, room_id, room_info) ==
  IF kind \in {"NewlyLive", "NewlyOffline"}
  THEN Append(new_live_rooms, Entry(room_id, room_info))
  ELSE new_live_rooms

\* What notification.notify can do when run calls notify: show the
\* notification or raise.
LocalOutcomes(kind) ==
  IF kind \in {"NewlyLive", "NewlyOffline"} THEN {"ok", "raise"} ELSE {"none"}

\* self.new_live_rooms after the poll result: appended to when newly live.
Pending(kind, room_id, room_info) ==
  IF kind = "NewlyLive"
  THEN Append(new_live_rooms, Entry(room_id, room_info))
  ELSE new_live_rooms

\* An exception of one room's iteration leaving the for loop: caught by the
\* except clause of the while loop, which ends run.
AfterRoom_exception_escapes(raised) ==
  IF raised THEN [idx |-> idx, phase |-> "stopped"]
  ELSE IF idx < Len(room_ids) THEN [idx |-> idx + 1, phase |-> "poll"]
  ELSE [idx |-> idx, phase |-> "spawn"]

\* Where the poll thread goes after one room's iteration: the try/except is
\* inside the for loop, so a raised exception is logged and the loop goes on
\* with the next room like after an iteration that returned.
AfterRoom(raised) ==
  IF idx < Len(room_ids) THEN [idx |-> idx + 1, phase |-> "poll"]
  ELSE [idx |-> idx, phase |-> "spawn"]

\* The way the save of check_room_status goes in the poll loop's model: the
\* file is written (a failing save changes nothing the loop reads; SpecCache
\* draws the failures).
PollSaveOutcomes == { [kind |-> "ok", cut |-> 0] }

\* The calls of notify made so far, with the one of this poll result.
Notified(kind, room_id, local) ==
  IF kind \in {"NewlyLive", "NewlyOffline"}
  THEN [notified EXCEPT ![room_id] =
          [kinds |-> Append(@.kinds, kind),
           failed |-> @.failed \/ local = "raise"]]
  ELSE notified

\* The comparison of run made also after check_room_status raised, the room
\* taken as not live.
Classify_raise_as_offline(room_id, res) ==
  LET c == check_room_status(room_id, room_names, res)
  IN [c |-> c,
      kind |-> TransitionKind(room_status[room_id], c.is_live)]

\* check_room_status and the comparison of run for one resolution result.
Classify(room_id, res) ==
  LET c == check_room_status(room_id, room_names, res)
  IN [c |-> c,
      kind |-> IF c.raised THEN "none"
               ELSE TransitionKind(room_status[room_id], c.is_live)]

\* What one iteration of the for loop leaves behind, for the resolution
\* result res, the outcome local of the notification and the outcome io of
\* the save.
RoomEnd(room_id, res, local, io) ==
  LET c == Classify(room_id, res).c
      kind == Classify(room_id, res).kind
  IN [room_names |-> c.room_names,
      cache_file |-> IF c.saves
                     THEN save_room_names(c.room_names, cache_file, io).file
                     ELSE cache_file,
      room_status |-> Stored(kind, room_id, c.is_live),
      new_live_rooms |-> Pending(kind, room_id, c.room_info),
      newly_live |-> Kept("last",
                          IF kind = "NewlyLive"
                          THEN newly_live \cup {room_id} ELSE newly_live,
                          {}),
      last |-> Kept("last",
                    [room |-> room_id, consulted |-> c.consulted,
                     raised |-> c.raised, prior |-> room_status[room_id],
                     is_live |-> c.is_live, kind |-> kind,
                     local |-> Dispatch(kind, local).local,
                     relay |-> Dispatch(kind, local).relay],
                    NoLast),
      cycle_log |-> Kept("cycle_log",
                         Append(cycle_log,
                                IF c.raised THEN "raised"
                                ELSE IF local = "raise" THEN "notify_failed"
                                ELSE "ok"),
                         <<>>),
      notified |-> Kept("notified", Notified(kind, room_id, local), notified),
      idx |-> AfterRoom(c.raised).idx,
      phase |-> AfterRoom(c.raised).phase]

\* The ways one iteration of the for loop can end for a room.
RoomEnds(room_id) ==
  UNION { { RoomEnd(room_id, res, local, io)
            : local \in LocalOutcomes(Classify(room_id, res).kind),
              io \in PollSaveOutcomes }
          : res \in PollResolutions[room_id][room_names[room_id]] }

\* One iteration of the for loop of run, with its try/except.
ProcessRoom ==
  /\ phase = "poll"
  /\ \E e \in RoomEnds(room_ids[idx]) :
       /\ room_names' = e.room_names
       /\ cache_file' = e.cache_file
       /\ room_status' = e.room_status
       /\ new_live_rooms' = e.new_live_rooms
       /\ newly_live' = e.newly_live
       /\ last' = e.last
       /\ cycle_log' = e.cycle_log
       /\ notified' = e.notified
       /\ idx' = e.idx
       /\ phase' = e.phase
  /\ UNCHANGED <<server_chan_key, cycle, handlers, call, stop_cause, io_log,
                 auto_open, hlast, tracked>>

\* run, after the for loop: a handler thread is started for a non-empty list.
SpawnHandler ==
  /\ phase = "spawn"
  /\ new_live_rooms # <<>>
  /\ handlers' = [handlers EXCEPT !.start = @ + 1]
  /\ phase' = "sleep"
  /\ UNCHANGED <<room_status, room_names, new_live_rooms, server_chan_key, idx,
                 cycle, last, newly_live, call, cycle_log, stop_cause,
                 cache_file, io_log, auto_open,
                 hlast, tracked, notified>>

NoHandler ==
  /\ phase = "spawn"
  /\ new_live_rooms = <<>>
  /\ phase' = "sleep"
  /\ UNCHANGED <<room_status, room_names, new_live_rooms, server_chan_key, idx,
                 cycle, handlers, last, newly_live, call, cycle_log, stop_cause,
                 cache_file, io_log, auto_open,
                 hlast, tracked, notified>>

\* A loop that returns after its sleep.
Sleep_returns ==
  /\ phase = "sleep"
  /\ cycle < MaxCycles
  /\ phase' = "stopped"
  /\ UNCHANGED <<room_status, room_names, new_live_rooms, server_chan_key, idx,
                 cycle, handlers, last, newly_live, call, cycle_log, stop_cause,
                 cache_file, io_log, auto_open, hlast, tracked, notified>>

\* time.sleep(check_interval), then the next pass of while True.
Sleep ==
  /\ phase = "sleep"
  /\ cycle < MaxCycles
  /\ cycle' = cycle + 1
  /\ idx' = 1
  /\ phase' = "poll"
  /\ newly_live' = {}
  /\ cycle_log' = <<>>
  /\ UNCHANGED <<room_status, room_names, new_live_rooms, server_chan_key,
                 handlers, last, call, stop_cause, cache_file, io_log, auto_open,
                 hlast, tracked, notified>>

\* ------------------------------------------------------ the handler threads
\* The entries of a list, each named by its room and the cycle that appended
\* it.
Ids(list) == { <<list[i].room_id, list[i].cycle>> : i \in 1..Len(list) }

\* handle_new_live_rooms up to its branch: return on an empty list, the
\* single-room branch, or the printed menu and the wait in input().
HandlerBegin ==
  /\ handlers.start > 0
  /\ handlers' =
       IF new_live_rooms = <<>>
       THEN [handlers EXCEPT !.start = @ - 1]
       ELSE IF Len(new_live_rooms) = 1
       THEN [handlers EXCEPT !.start = @ - 1,
                             !.single = Append(@, Ids(new_live_rooms))]
       ELSE [handlers EXCEPT !.start = @ - 1,
                             !.input = Append(@, Ids(new_live_rooms))]
  /\ UNCHANGED <<room_status, room_names, new_live_rooms, server_chan_key, phase,
                 idx, cycle, last, newly_live, call, cycle_log, stop_cause,
                 cache_file, io_log, auto_open,
                 hlast, tracked, notified>>

\* The sequence without its i-th element.
RemoveAt(seq, i) == SubSeq(seq, 1, i - 1) \o SubSeq(seq, i + 1, Len(seq))

\* What webbrowser.open can do inside open_live_room.
OpenOutcomes == {"ok", "raise"}

\* open_live_room: the page is opened, or the exception is caught and logged.
open_live_room(open) == IF open = "ok" THEN "opened" ELSE "open_failed"

\* The list after the single-room branch: self.new_live_rooms = [] follows the
\* if, whatever open_live_room did.
AfterSingle(list, path) == <<>>

\* The single-room branch: read entry 0, open it when auto_open is set, clear
\* the list.  On a list emptied meanwhile the read raises IndexError and the
\* thread ends.  SingleEnd is what the thread leaves behind.
SingleEnd(open) ==
  IF new_live_rooms = <<>>
  THEN [hlast |-> Kept("hlast",
                       [branch |-> "single", path |-> "index_error",
                        room |-> ""],
                       NoHandlerEnd),
        new_live_rooms |-> new_live_rooms]
  ELSE LET path == IF auto_open THEN open_live_room(open) ELSE "not_opened"
       IN [hlast |-> Kept("hlast",
                          [branch |-> "single", path |-> path,
                           room |-> new_live_rooms[1].room_id],
                          NoHandlerEnd),
           new_live_rooms |-> AfterSingle(new_live_rooms, path)]

HandlerSingle ==
  /\ \E i \in 1..Len(handlers.single) :
       handlers' = [handlers EXCEPT !.single = RemoveAt(@, i)]
  /\ \E e \in {SingleEnd(open) : open \in OpenOutcomes} :
       /\ hlast' = e.hlast
       /\ new_live_rooms' = e.new_live_rooms
  /\ UNCHANGED <<room_status, room_names, server_chan_key, phase, idx, cycle,
                 last, newly_live, call, cycle_log, stop_cause, cache_file,
                 io_log, auto_open, tracked, notified>>

\* What input() can return or do: a number from 0 to one past the list, a
\* text that is no number, or an exception (end of input).
Answers(list) ==
  { [kind |-> "int", value |-> v] : v \in 0..(Len(list) + 1) }
  \cup { [kind |-> "text", value |-> 0], [kind |-> "raise", value |-> 0] }

\* The try block of handle_new_live_rooms for one answer: which way it went
\* and which room it asked open_live_room for.
handle_choice(list, answer, open) ==
  IF answer.kind = "raise" THEN [path |-> "error", room |-> ""]
  ELSE IF answer.kind = "text" THEN [path |-> "not_a_number", room |-> ""]
  ELSE IF 1 <= answer.value /\ answer.value <= Len(list)
  THEN [path |-> open_live_room(open), room |-> list[answer.value].room_id]
  ELSE IF answer.value # 0 THEN [path |-> "invalid", room |-> ""]
  ELSE [path |-> "none", room |-> ""]

\* The list after the menu branch, the assignment of the empty list moved
\* into the try block: skipped when int() or input() raises.
AfterChoice_clear_in_try(list, path) ==
  IF path \in {"not_a_number", "error"} THEN list ELSE <<>>

\* The list after the menu branch: self.new_live_rooms = [] follows the
\* try/except, on every path.
AfterChoice(list, path) == <<>>

\* The menu branch from the answer on: what the thread leaves behind.
ChoiceEnd(answer, open) ==
  LET r == handle_choice(new_live_rooms, answer, open)
  IN [hlast |-> Kept("hlast",
                     [branch |-> "menu", path |-> r.path, room |-> r.room],
                     NoHandlerEnd),
      new_live_rooms |-> AfterChoice(new_live_rooms, r.path)]

\* The user answers input() of one waiting handler: the choice is handled,
\* the list is cleared.
HandlerInput ==
  /\ \E i \in 1..Len(handlers.input) :
       handlers' = [handlers EXCEPT !.input = RemoveAt(@, i)]
  /\ \E e \in { ChoiceEnd(answer, open) :
                   answer \in Answers(new_live_rooms), open \in OpenOutcomes } :
       /\ hlast' = e.hlast
       /\ new_live_rooms' = e.new_live_rooms
  /\ UNCHANGED <<room_status, room_names, server_chan_key, phase, idx, cycle,
                 last, newly_live, call, cycle_log, stop_cause, cache_file,
                 io_log, auto_open, tracked, notified>>

Next ==
  \/ ProcessRoom
  \/ SpawnHandler
  \/ NoHandler
  \/ Sleep
  \/ HandlerBegin
  \/ HandlerSingle
  \/ HandlerInput

Spec == Init /\ [][Next]_vars

\* ------------------------------------------------- the ways run can return
\* KeyboardInterrupt (Ctrl-C) reaches the main thread wherever it is: no
\* except Exception clause catches it, the clause of the while loop does.
Interrupt ==
  /\ phase # "stopped"
  /\ phase' = "stopped"
  /\ stop_cause' = "KeyboardInterrupt"
  /\ UNCHANGED <<room_status, room_names, new_live_rooms, server_chan_key, idx,
                 cycle, handlers, last, newly_live, call, cycle_log,
                 cache_file, io_log, auto_open,
                 hlast, tracked, notified>>

\* Thread.start() raises (no thread can be started): outside the per-room
\* try, so the except Exception clause of the while loop ends run.
SpawnFails ==
  /\ phase = "spawn"
  /\ new_live_rooms # <<>>
  /\ phase' = "stopped"
  /\ stop_cause' = "Exception"
  /\ UNCHANGED <<room_status, room_names, new_live_rooms, server_chan_key, idx,
                 cycle, handlers, last, newly_live, call, cycle_log,
                 cache_file, io_log, auto_open,
                 hlast, tracked, notified>>

NextRun ==
  \/ Next
  \/ Interrupt
  \/ SpawnFails

\* The monitor started without a cache file and with a relay key, run until
\* it returns.
InitRun ==
  /\ InitLoop
  /\ call = NoCall
  /\ auto_open
  /\ server_chan_key
  /\ cache_file = MissingFile
  /\ tracked = {"cycle_log"}

SpecRun == InitRun /\ [][NextRun]_vars

\* The same monitor, the run recording the calls of notify.
InitNotify ==
  /\ InitLoop
  /\ call = NoCall
  /\ auto_open
  /\ server_chan_key
  /\ cache_file = MissingFile
  /\ tracked = {"notified"}

SpecNotify == InitNotify /\ [][Next]_vars

\* The monitor with or without auto_open, the run recording how each handler
\* thread ended.
InitSelect ==
  /\ InitLoop
  /\ call = NoCall
  /\ server_chan_key
  /\ cache_file = MissingFile
  /\ tracked = {"hlast"}

SpecSelect == InitSelect /\ [][Next]_vars

\* ------------------------------------------- one resolution, on its own
\* Every room, cache content and combination of upstream outcomes.
InitResolve ==
  /\ InitLoop
  /\ server_chan_key
  /\ auto_open
  /\ tracked = {}
  /\ cache_file = MissingFile
  /\ \E room_id \in Rooms :
       \E names \in {f \in [Rooms -> UNION {CachedNames(r) : r \in Rooms}] :
                       \A r \in Rooms : f[r] \in CachedNames(r)} :
         \E up \in Upstreams(room_id, MobileOutcomes, PcOutcomes(room_id)) :
           call = [done |-> FALSE, room_id |-> room_id, names |-> names,
                   up |-> up, result |-> NoResult, waiting |-> ""]

\* The network sources, and the requests.get calls that pass timeout=10: the
\* mobile page and the secondary API do, the primary API call passes none.
Sources == {"primary", "mobile", "pc"}
HasTimeout(source) == source \in {"mobile", "pc"}

\* The requests this call of get_room_info makes.
Requested(c) ==
  {"primary"} \cup (IF c.up.mobile # MobileNotCalled THEN {"mobile"} ELSE {})
              \cup (IF c.up.pc # PcNotCalled THEN {"pc"} ELSE {})

\* get_room_info returns: every request it made was answered or raised (a
\* request with a timeout raises when the upstream stays silent).
Resolve ==
  /\ ~call.done
  /\ call.waiting = ""
  /\ call' = [call EXCEPT
                !.done = TRUE,
                !.result = get_room_info(call.room_id, call.names,
                                         call.up.primary, call.up.mobile,
                                         call.up.pc)]
  /\ UNCHANGED loopVars

\* An upstream accepts a request and never answers: requests.get without a
\* timeout waits for it without end, and get_room_info does not return.
Hang ==
  /\ ~call.done
  /\ call.waiting = ""
  /\ \E source \in Requested(call) :
       /\ ~HasTimeout(source)
       /\ call' = [call EXCEPT !.waiting = source]
  /\ UNCHANGED loopVars

NextResolve ==
  \/ Resolve
  \/ Hang

SpecResolve == InitResolve /\ [][NextResolve]_vars
\* --------------------------------------- the name cache file, on its own
\* Names a cache in memory can hold, the empty string included.
AnyNames ==
  { f \in [Rooms -> UNION {CachedNames(r) \cup {""} : r \in Rooms}] :
      \A r \in Rooms : f[r] \in CachedNames(r) \cup {""} }

\* Files the disk can hold: none, an empty one, one cut short, or one written
\* by a save.
DiskFiles ==
  { MissingFile, File(<<>>), File(<<"{", "A", ":">>) }
  \cup { File(JsonDump(f)) : f \in CacheFiles }

InitCache ==
  /\ InitMonitor
  /\ server_chan_key
  /\ auto_open
  /\ tracked = {}
  /\ call = NoCall
  /\ cache_file \in DiskFiles
  /\ room_names \in AnyNames

\* The log with entry e added, the latest two calls kept.
Logged(e) ==
  IF Len(io_log) = 2 THEN <<io_log[2], e>> ELSE Append(io_log, e)

\* self.save_room_names()
Save ==
  /\ \E io \in SaveOutcomes(room_names) :
       LET r == save_room_names(room_names, cache_file, io)
       IN /\ cache_file' = r.file
          /\ io_log' = Logged([op |-> "save", failed |-> io.kind # "ok",
                               missing |-> ~cache_file.exists,
                               names |-> room_names, logged |-> r.logged,
                               raised |-> r.raised])
  /\ UNCHANGED <<room_status, room_names, new_live_rooms, server_chan_key, phase,
                 idx, cycle, handlers, last, newly_live, call, cycle_log,
                 stop_cause, auto_open,
                 hlast, tracked, notified>>

\* self.room_names = self.load_room_names()
Load ==
  /\ \E io \in {"ok", "raise"} :
       LET r == load_room_names(cache_file, io)
       IN /\ room_names' = r.value
          /\ io_log' = Logged([op |-> "load",
                               failed |-> /\ cache_file.exists
                                          /\ \/ io = "raise"
                                             \/ ~JsonLoad(cache_file.text).ok,
                               missing |-> ~cache_file.exists,
                               names |-> r.value, logged |-> r.logged,
                               raised |-> r.raised])
  /\ UNCHANGED <<room_status, new_live_rooms, server_chan_key, phase, idx, cycle,
                 handlers, last, newly_live, call, cycle_log, stop_cause,
                 cache_file, auto_open,
                 hlast, tracked, notified>>

NextCache ==
  \/ Save
  \/ Load

SpecCache == InitCache /\ [][NextCache]_vars

\* ------------------------------------------------------------------ claims
Occurs(x, seq) == \E i \in 1..Len(seq) : seq[i] = x

\* C1: whatever the three upstream sources answer, the value get_room_info
\* returns is a dictionary whose room_name and owner_name are present and
\* non-empty.
C1_ResolveAlwaysNamed ==
  call.done =>
    /\ call.result.info.mapping
    /\ Truthy(call.result.info.room_name)
    /\ Truthy(call.result.info.owner_name)

\* C2: when the primary API answers with error == 0, get_room_info returns
\* exactly the data of that answer and contacts neither the mobile page, the
\* secondary API nor the name cache.
C2_PrimarySuccessReturnedAsIs ==
  (call.done /\ call.up.primary.kind = "json" /\ call.up.primary.error = 0) =>
    /\ call.result.info = call.up.primary.data
    /\ call.result.consulted = <<"primary">>
C2_Witness ==
  /\ call.done
  /\ call.up.primary.kind = "json"
  /\ call.up.primary.error = 0
  /\ call.up.primary.data = RoomDict(call.room_id, "Y", "1", "X")
  /\ call.names[call.room_id] = UnknownRoom

\* C3: when the primary API fails and the mobile page request ends on a
\* different URL that contains the topic marker, get_room_info returns
\* room_status '2' with the cached name of the room if the cache has one and
\* the placeholders made from the room id otherwise, for every status code
\* and body, and the secondary API is not called.
C3_TopicRedirectIsOffline ==
  ( /\ call.done
    /\ ~(call.up.primary.kind = "json" /\ call.up.primary.error = 0)
    /\ call.up.mobile.kind = "response"
    /\ call.up.mobile.final_url = "topic" ) =>
    LET cached == call.names[call.room_id]
        info == call.result.info
    IN /\ info.mapping
       /\ info.room_status = "2"
       /\ info.room_name = (IF cached # Absent THEN cached
                            ELSE UnknownRoomOf(call.room_id))
       /\ info.owner_name = (IF cached # Absent THEN cached
                             ELSE UnknownOwnerOf(call.room_id))
       /\ ~Occurs("pc", call.result.consulted)
       /\ call.up.pc = PcNotCalled
C3_Witness ==
  /\ call.done
  /\ call.up.primary.kind = "exception"
  /\ call.up.mobile.kind = "response"
  /\ call.up.mobile.final_url = "topic"
  /\ call.up.mobile.status_code = 404
  /\ call.names[call.room_id] = "Y"
  /\ call.result.info = RoomDict(call.room_id, "Y", "2", "Y")
\* A step of the poll thread that processes the room at idx.
RoomStep == phase = "poll" /\ (idx' # idx \/ phase' = "spawn")

\* C4: the poll of a room is classified NewlyLive iff the stored state is
\* false and the resolved one true, NewlyOffline iff stored true and resolved
\* false, Unchanged otherwise; after it the stored state is the resolved one;
\* and nothing else changes a room's stored state (so a second live poll after
\* a NewlyLive is Unchanged).
C4_StatusDiff ==
  [][ \A r \in Rooms :
        IF RoomStep /\ room_ids[idx] = r /\ ~last'.raised
        THEN /\ last'.room = r
             /\ (last'.kind = "NewlyLive") = (~room_status[r] /\ last'.is_live)
             /\ (last'.kind = "NewlyOffline") = (room_status[r] /\ ~last'.is_live)
             /\ (last'.kind = "Unchanged") = (room_status[r] = last'.is_live)
             /\ room_status'[r] = last'.is_live
        ELSE room_status'[r] = room_status[r] ]_vars
C4_Witness ==
  /\ cycle = 2
  /\ last.kind = "Unchanged"
  /\ last.prior
  /\ last.is_live
  /\ room_status[last.room]

\* C5: with a push-relay key configured, every notification that is
\* dispatched attempts the relay push, also when the local notification
\* raises.
C5_RelayIndependentOfLocal ==
  (server_chan_key /\ last.kind \in {"NewlyLive", "NewlyOffline"}) => last.relay

\* C6: a poll classified NewlyLive dispatches one notification and appends
\* (room_id, room_info) to new_live_rooms; NewlyOffline dispatches one and
\* appends nothing; Unchanged dispatches none and appends nothing.
C6_DispatchAndAppend ==
  [][ RoomStep =>
        /\ last'.kind = "NewlyLive" =>
             /\ last'.local \in {"ok", "raise"}
             /\ Len(new_live_rooms') = Len(new_live_rooms) + 1
             /\ SubSeq(new_live_rooms', 1, Len(new_live_rooms)) = new_live_rooms
             /\ new_live_rooms'[Len(new_live_rooms')].room_id = room_ids[idx]
             /\ new_live_rooms'[Len(new_live_rooms')].room_info.room_status = "1"
             /\ new_live_rooms'[Len(new_live_rooms')].room_info.room_id = room_ids[idx]
             /\ LET name == new_live_rooms'[Len(new_live_rooms')].room_info.room_name
                IN Truthy(name) => room_names'[room_ids[idx]] = name
        /\ last'.kind = "NewlyOffline" =>
             /\ last'.local \in {"ok", "raise"}
             /\ new_live_rooms' = new_live_rooms
        /\ last'.kind = "Unchanged" =>
             /\ last'.local = "none"
             /\ ~last'.relay
             /\ new_live_rooms' = new_live_rooms ]_vars
C6_Witness ==
  /\ last.kind = "NewlyLive"
  /\ last.room = "B"
  /\ Len(new_live_rooms) = 2
  /\ new_live_rooms[2].room_id = "B"
  /\ new_live_rooms[2].room_info = RoomDict("B", "Y", "1", "X")

\* Every handler thread that was started has run up to its wait in input().
HandlersRan == handlers.start = 0 /\ handlers.single = <<>>

\* C7: when two or more rooms become newly live in one cycle, new_live_rooms
\* holds exactly their entries when the cycle's rooms are done, and it is
\* empty when the next cycle starts.  (Stated for the runs in which every
\* started handler thread had the processor before the sleep ended.)
C7_ListEmptyAtNextCycle ==
  [][ /\ ( /\ RoomStep
           /\ phase' = "spawn"
           /\ Cardinality(newly_live') >= 2
           /\ HandlersRan )
         => Len(new_live_rooms') = Cardinality(newly_live')
      /\ ( /\ phase = "sleep"
           /\ phase' = "poll"
           /\ Cardinality(newly_live) >= 2
           /\ HandlersRan )
         => new_live_rooms = <<>> ]_vars

\* C8: every entry of new_live_rooms was appended in the current poll cycle.
\* (Stated for the states in which every started handler thread has run.)
C8_OnlyCurrentCycleEntries ==
  HandlersRan =>
    \A i \in 1..Len(new_live_rooms) : new_live_rooms[i].cycle = cycle

IsPlaceholder(name) ==
  \/ name \in {UnknownRoom, UnknownOwner}
  \/ \E r \in Rooms : name \in {UnknownRoomOf(r), UnknownOwnerOf(r)}
IsRealName(name) == Truthy(name) /\ ~IsPlaceholder(name)

\* C9: once the name cache holds a real name for a room, no update replaces
\* it with a placeholder.
C9_RealNameNeverDowngraded ==
  [][ \A r \in Rooms :
        IsRealName(room_names[r]) => ~IsPlaceholder(room_names'[r]) ]_vars

\* The resolution went through every network source and ended in the cache.
CacheFallback(consulted) == consulted = <<"primary", "mobile", "pc", "cache">>

\* C10: a poll in which every network source failed and the result was built
\* from the cache leaves the tracked state unchanged and dispatches nothing.
C10_CacheFallbackKeepsState ==
  [][ (RoomStep /\ CacheFallback(last'.consulted)) =>
        /\ room_status' = room_status
        /\ last'.local = "none" ]_vars

\* C11: an exception raised while one room is processed is caught for that
\* room alone: the for loop still runs the iteration of every other room of
\* the cycle, and run does not return because of it (the loop goes on to the
\* thread start and the sleep, hence to the next cycle).
C11_ExceptionIsolatedPerRoom ==
  /\ phase = "poll" => Len(cycle_log) = idx - 1
  /\ phase \in {"spawn", "sleep"} => Len(cycle_log) = Len(room_ids)
  /\ phase = "stopped" => stop_cause # "none"

\* Room A raised, room B was still resolved and classified newly live in the
\* same cycle, and the poll thread reached the sleep.
C11_Witness ==
  /\ cycle = 1
  /\ cycle_log = <<"raised", "ok">>
  /\ ~room_status["A"]
  /\ room_status["B"]
  /\ phase = "sleep"

\* C12: every network request (primary API, mobile page, secondary API) is
\* bounded by a timeout, so that no call of get_room_info waits without end
\* on an upstream that never answers and the poll cycle calling it goes on
\* to its remaining rooms and its sleep.
C12_EveryRequestBounded ==
  ~call.done => call.waiting = ""

\* A complete RoomInfo: the room id, a room name and an owner name the source
\* itself supplied, and the live flag.
Complete(info) ==
  /\ info.mapping
  /\ info.room_id # Absent
  /\ IsRealName(info.room_name)
  /\ IsRealName(info.owner_name)
  /\ info.room_status \in {"1", "2"}

\* C13: a network source's answer is returned only when it is a complete
\* RoomInfo; a source that answers without one of the fields is passed over
\* for the next source, never returned partial or filled with placeholders.
C13_OnlyCompleteResults ==
  (/\ call.done
   /\ call # NoCall
   /\ call.result.consulted[Len(call.result.consulted)] # "cache")
    => Complete(call.result.info)

\* C14: a load that follows a successful save returns the mapping that was
\* saved; a load that finds no file returns the empty mapping; no call of
\* load or save lets an exception out, and a call that met an I/O or parse
\* failure logged it.
C14_CacheRoundTrip ==
  /\ \A i \in 1..Len(io_log) :
       /\ ~io_log[i].raised
       /\ io_log[i].failed => io_log[i].logged
       /\ (io_log[i].op = "load" /\ io_log[i].missing)
            => io_log[i].names = NoNames
  /\ (/\ Len(io_log) = 2
      /\ io_log[1].op = "save" /\ ~io_log[1].failed
      /\ io_log[2].op = "load" /\ ~io_log[2].failed)
       => io_log[2].names = io_log[1].names

\* A cache with a name for each room was saved and then loaded.
C14_Witness ==
  /\ Len(io_log) = 2
  /\ io_log[1].op = "save" /\ ~io_log[1].failed
  /\ io_log[2].op = "load" /\ ~io_log[2].failed
  /\ \A r \in Rooms : IsRealName(io_log[1].names[r])
  /\ room_names = io_log[1].names

\* The order in which the sources are to be asked.
FixedOrder == <<"primary", "mobile", "pc", "cache">>
Rank(source) == CHOOSE i \in 1..Len(FixedOrder) : FixedOrder[i] = source

\* C15: one resolution asks its sources in the order primary API, mobile page,
\* secondary API, cache: the mobile page only after the primary API failed,
\* the secondary API only after the primary API and the mobile page both
\* failed, and when all three failed or raised the result is the one built
\* from the cache: not live, named by the cached name or else by the room-id
\* placeholder.
C15_SourcesInFixedOrder ==
  (call.done /\ call # NoCall) =>
    LET c == call.result.consulted
        up == call.up
        cached == call.names[call.room_id]
        primaryFailed == ~PrimarySucceeds(up.primary)
        mobileFailed == up.mobile # MobileNotCalled /\ ~MobileAnswers(up.mobile)
        pcFailed == up.pc # PcNotCalled /\ ~PcAccepts(up.pc)
    IN /\ c # <<>> /\ c[1] = "primary"
       /\ \A i, j \in 1..Len(c) : i < j => Rank(c[i]) < Rank(c[j])
       /\ Occurs("mobile", c) => primaryFailed
       /\ Occurs("pc", c) =>
            primaryFailed /\ Occurs("mobile", c) /\ mobileFailed
       /\ (primaryFailed /\ mobileFailed /\ pcFailed) =>
            /\ c = FixedOrder
            /\ call.result.info.room_id = call.room_id
            /\ call.result.info.room_status = "2"
            /\ call.result.info.room_name =
                 IF Truthy(cached) THEN cached ELSE UnknownRoomOf(call.room_id)

\* All three requests raised and the result carries the cached name.
C15_Witness ==
  /\ call.done /\ call # NoCall
  /\ call.up.primary.kind = "exception"
  /\ call.up.mobile.kind = "exception"
  /\ call.up.pc.kind = "exception"
  /\ call.result.consulted = FixedOrder
  /\ call.names[call.room_id] = "Y"
  /\ call.result.info.room_name = "Y"

\* A handler thread that found a non-empty list ends in this step.
HandlerEnds ==
  \/ Len(handlers'.single) < Len(handlers.single)
  \/ Len(handlers'.input) < Len(handlers.input)

\* C16: every handler invocation that found a non-empty list leaves the list
\* empty when it ends, whichever way it went: single entry with or without
\* auto_open, a valid choice, choice 0, a choice out of range, a text that is
\* no number, or a browser that cannot be opened.
C16_ListClearedOnEveryPath ==
  [][ HandlerEnds => new_live_rooms' = <<>> ]_vars

\* The user typed a text that is no number at a menu, and the list is empty.
C16_Witness ==
  /\ hlast.branch = "menu"
  /\ hlast.path = "not_a_number"
  /\ new_live_rooms = <<>>

\* The entries this step takes out of the list.
Removed == Ids(new_live_rooms) \ Ids(new_live_rooms')

\* C17: the handler works on a snapshot: when a handler thread ends, its clear
\* takes out of the shared list only entries the list had when that thread
\* looked at it, never an entry the poll thread appended afterwards.
C17_ClearKeepsLaterEntries ==
  [][ /\ \A i \in 1..Len(handlers.single) :
           handlers'.single = RemoveAt(handlers.single, i)
             => Removed \subseteq handlers.single[i]
      /\ \A i \in 1..Len(handlers.input) :
           handlers'.input = RemoveAt(handlers.input, i)
             => Removed \subseteq handlers.input[i] ]_vars

\* C18: run returns only through a KeyboardInterrupt or through an exception
\* raised outside the per-room try (the thread start); a room iteration,
\* whatever failed in it, leaves the loop running, and each sleep is followed
\* by the first room of a new cycle.
C18_StopsOnlyWhenCancelled ==
  [][ /\ (phase # "stopped" /\ phase' = "stopped") =>
           \/ stop_cause' = "KeyboardInterrupt"
           \/ stop_cause' = "Exception" /\ phase = "spawn"
      /\ (phase = "poll" /\ cycle_log' # cycle_log) =>
           phase' \in {"poll", "spawn"}
      /\ (phase = "sleep" /\ phase' \notin {"sleep", "stopped"}) =>
           phase' = "poll" /\ idx' = 1 /\ cycle' = cycle + 1 ]_vars

\* In the second cycle a notification for room A failed and the iteration of
\* room B raised, room A was resolved from the cache alone before, and the
\* poll thread is at its sleep.
C18_Witness ==
  /\ cycle = 2
  /\ phase = "sleep"
  /\ stop_cause = "none"
  /\ cycle_log = <<"notify_failed", "raised">>
  /\ room_names["A"] = UnknownRoomOf("A")

\* C19: for each room the calls of notify alternate, beginning with
\* NewlyLive: the first, third, ... are NewlyLive and the second, fourth, ...
\* NewlyOffline, whether or not a notification could be shown.
C19_NotificationsAlternate ==
  \A r \in Rooms : \A i \in 1..Len(notified[r].kinds) :
    notified[r].kinds[i] = IF i % 2 = 1 THEN "NewlyLive" ELSE "NewlyOffline"

\* Room A went live and offline again, and a notification for it failed.
C19_Witness ==
  /\ notified["A"].kinds = <<"NewlyLive", "NewlyOffline">>
  /\ notified["A"].failed

\* How many handler invocations have read the entry named id when this step
\* takes it out of the list: the waiting threads whose menu listed it, and
\* the thread of the single-room branch that ends in this step reading it as
\* entry 0.
TimesPresented(id) ==
  Cardinality({ i \in 1..Len(handlers.input) : id \in handlers.input[i] })
  + (IF /\ Len(handlers'.single) < Len(handlers.single)
        /\ id = <<new_live_rooms[1].room_id, new_live_rooms[1].cycle>>
     THEN 1 ELSE 0)

\* C20: under every interleaving of the poll thread and the handler threads,
\* each entry appended to the list is presented to the selection handler
\* exactly once: when it leaves the list, one handler invocation has read it,
\* not none and not two.
C20_PresentedExactlyOnce ==
  [][ \A id \in Removed : TimesPresented(id) = 1 ]_vars

\* run starts a handler thread in this step.
HandlerStarted == handlers'.start = handlers.start + 1

\* C21: at most one selection-handler thread is active at a time: run never
\* starts a handler thread while a handler started before is still waiting in
\* input() for the user's choice.
C21_OneHandlerAtATime ==
  [][ HandlerStarted => handlers.input = <<>> ]_vars

\* C22: when the processing of a room raises before the comparison with the
\* stored state (the resolver returned a value that is no mapping), that
\* iteration changes the stored state of no room, calls notify neither
\* locally nor through the relay, and appends nothing to new_live_rooms.
C22_RaiseBeforeComparisonKeepsState ==
  [][ (RoomStep /\ last'.raised) =>
        /\ last'.room = room_ids[idx]
        /\ last'.kind = "none"
        /\ room_status' = room_status
        /\ last'.local = "none"
        /\ ~last'.relay
        /\ new_live_rooms' = new_live_rooms ]_vars

\* In the second cycle the iteration of room B raised; B was tracked live and
\* still is, nothing was dispatched, and the list holds what it held before.
C22_Witness ==
  /\ cycle = 2
  /\ last.raised
  /\ last.room = "B"
  /\ last.prior
  /\ room_status["B"]
  /\ last.local = "none"
  /\ Ids(new_live_rooms) = {<<"A", 1>>, <<"B", 1>>}
====
